---------------------------- MODULE Spec2Model ----------------------------
(***************************************************************************)
(* Speech lifecycle of the RobotChatBot desktop client.                    *)
(*                                                                         *)
(* Two SpeechManager classes exist in the repository:                      *)
(*   - the queueing manager (src/unnamed/part_001), which owns             *)
(*     state.speaking / state.pendingSpeeches and a Chrome watchdog;       *)
(*   - the simple manager (src/prod/src/preload-simple.js), which cancels  *)
(*     the engine before every utterance and has an enabled flag.          *)
(* A run drives exactly one of them (variable impl) against one speech     *)
(* engine (window.speechSynthesis).  The engine is the environment: it     *)
(* keeps a queue of submitted utterances and delivers start / end / error  *)
(* notifications to the handlers the manager installed.                    *)
(***************************************************************************)
EXTENDS Integers, Sequences, FiniteSets

\* Number of speak() calls with non-empty text the client makes in a run.
MaxSpeak == 3
\* Number of utterances handed to speechSynthesis.speak in a run.
MaxUtterances == 2
\* Number of 50 ms dequeue timeouts that may be pending at once.
MaxTimers == 1

\* The empty string passed as text; the n-th non-empty text is the number n.
EmptyText == 0
\* state.currentUtterance = null
Null == [id |-> 0, text |-> 0]

\* The watchdog takes speech to be stuck after more than 10 seconds.
StallLimit == 10

VARIABLES
  impl,              \* "queue": part_001's class, "simple": preload-simple's
  hasEngine,         \* 'speechSynthesis' in window
  available,         \* state.available
  initialized,       \* state.initialized
  stateError,        \* state.error !== null
  chromeWorkaround,  \* state.chromeWorkaround
  speaking,          \* state.speaking
  paused,            \* state.paused
  muted,             \* state.muted
  enabled,           \* simple manager: this.enabled
  currentUtterance,  \* state.currentUtterance
  pendingSpeeches,   \* state.pendingSpeeches (texts, oldest first)
  watchdogSet,       \* this._chromeWorkaroundInterval is set
  timeSinceLastEvent,\* Date.now() - state.lastSpeechTimestamp, in seconds:
                     \* 0, or StallLimit + 1 for any time over the limit
  dequeueTimers,     \* pending setTimeout(..., 50) of onend
  restartTimers,     \* texts of pending setTimeout(..., 100) of the watchdog
  engineQueue,       \* utterances submitted to the engine, not yet finished
  engineStarted,     \* the head of engineQueue has had 'start' delivered
  enginePaused,      \* speechSynthesis.paused
  engineNotice,      \* 'pause' / 'resume' event the engine has yet to deliver
  stale,             \* number of cancelled utterances whose last event is
                     \* still to come
  nextId,            \* utterances created so far + 1
  speakCalls,        \* non-empty speak() calls of the client so far
  last,              \* the handler that ran last: its text argument, what it
                     \* returned, the callbacks and engine methods it called,
                     \* the length of the queue when it began, and what
                     \* became of an exception thrown by a client callback
  destroyed,         \* ClaudeRobot.destroy() has run
  cancelled          \* cancel() has returned and the client has not called
                     \* speak() since

mgrVars == <<speaking, paused, muted, currentUtterance, pendingSpeeches,
             watchdogSet, timeSinceLastEvent, dequeueTimers, restartTimers>>
engineVars == <<engineQueue, engineStarted, enginePaused, engineNotice,
                stale, nextId>>
envVars == <<impl, hasEngine, available, initialized, stateError,
             chromeWorkaround>>
\* Voices and configuration
VARIABLES
  engineVoices,      \* what speechSynthesis.getVoices() returns now
  voiceChanges,      \* times the engine's list has changed
  hookSupported,     \* speechSynthesis has an onvoiceschanged property
  hookSet,           \* speechSynthesis.onvoiceschanged is the manager's
  retryTimer,        \* 0, or the attempt that the pending 1 s timeout makes
  retriesScheduled,  \* timeouts _loadVoicesWithRetry has scheduled
  config,            \* config: defaultVoice, lang, voice, rate, pitch, volume
                     \* (preload-simple: voiceURI, language, -, rate, ...)
  selectedVoice,     \* state.selectedVoice (preload-simple: this.voice)
  voicesLoaded,      \* state.voicesLoaded
  vlast,             \* the voice or configuration operation that ran last
  voiceChosen        \* a setVoice of the client has returned true

voiceVars == <<engineVoices, voiceChanges, hookSupported, hookSet, retryTimer,
               retriesScheduled, config, selectedVoice, voicesLoaded, vlast,
               voiceChosen>>

\* Sentiment analysis
VARIABLES
  analysis,          \* the last call of SentimentAnalyzer.analyze: its
                     \* argument and what it returned
  keywords           \* the last call of extractKeywords: its arguments
                     \* and what it returned

sentVars == <<analysis, keywords>>

\* The variables of the other specifications of this module, which the
\* speech actions leave alone.
otherVars == <<voiceVars, sentVars>>
vars == <<envVars, mgrVars, engineVars, enabled, speakCalls, last, destroyed, cancelled,
          otherVars>>

----------------------------------------------------------------------------
(* The state a handler works on, as one record, and its write-back.        *)

Cur ==
  [speaking |-> speaking, paused |-> paused, muted |-> muted,
   currentUtterance |-> currentUtterance, pendingSpeeches |-> pendingSpeeches,
   watchdogSet |-> watchdogSet, timeSinceLastEvent |-> timeSinceLastEvent,
   dequeueTimers |-> dequeueTimers, restartTimers |-> restartTimers,
   engineQueue |-> engineQueue, engineStarted |-> engineStarted,
   enginePaused |-> enginePaused, engineNotice |-> engineNotice,
   stale |-> stale, nextId |-> nextId,
   ret |-> "void", cbs |-> <<>>, calls |-> <<>>, thrown |-> "none"]

Commit(op, arg, s) ==
  /\ speaking' = s.speaking
  /\ paused' = s.paused
  /\ muted' = s.muted
  /\ currentUtterance' = s.currentUtterance
  /\ pendingSpeeches' = s.pendingSpeeches
  /\ watchdogSet' = s.watchdogSet
  /\ timeSinceLastEvent' = s.timeSinceLastEvent
  /\ dequeueTimers' = s.dequeueTimers
  /\ restartTimers' = s.restartTimers
  /\ engineQueue' = s.engineQueue
  /\ engineStarted' = s.engineStarted
  /\ enginePaused' = s.enginePaused
  /\ engineNotice' = s.engineNotice
  /\ stale' = s.stale
  /\ nextId' = s.nextId
  /\ last' = [op |-> op, arg |-> arg, ret |-> s.ret, cbs |-> s.cbs,
               calls |-> s.calls, pendingBefore |-> Len(pendingSpeeches),
               thrown |-> s.thrown]

----------------------------------------------------------------------------
(* The engine's methods, as the manager calls them.                        *)

\* speechSynthesis.cancel(): the queue is emptied.  Of the utterances
\* removed, ev (at most all of them) still get a last event later.
EngineCancel(s, ev) ==
  [s EXCEPT !.engineQueue = <<>>,
            !.engineStarted = FALSE,
            !.engineNotice = "none",
            !.stale = @ + (IF ev < Len(s.engineQueue) THEN ev
                           ELSE Len(s.engineQueue)),
            !.calls = Append(@, "cancel")]

\* speechSynthesis.speak(utterance)
EngineSpeak(s, u) ==
  [s EXCEPT !.engineQueue = Append(@, u),
            !.nextId = @ + 1,
            !.calls = Append(@, "speak")]

\* speechSynthesis.pause() / resume()
\* An utterance being spoken is notified with 'pause' / 'resume'.
EnginePause(s) ==
  [s EXCEPT !.enginePaused = TRUE,
            !.engineNotice = IF s.engineStarted /\ ~s.enginePaused
                               THEN "pause" ELSE @,
            !.calls = Append(@, "pause")]

EngineResume(s) ==
  [s EXCEPT !.enginePaused = FALSE,
            !.engineNotice = IF s.engineStarted /\ s.enginePaused
                               THEN "resume" ELSE @,
            !.calls = Append(@, "resume")]

----------------------------------------------------------------------------
(* part_001: SpeechManager.speak(text, options)                            *)

\* speak without the availability check at its head.
SpeakUnchecked(s, text, ev) ==
  IF text = EmptyText THEN [s EXCEPT !.ret = "false"]
  ELSE IF s.speaking
    THEN [s EXCEPT !.pendingSpeeches = Append(@, text), !.ret = "true"]
    ELSE LET r == IF chromeWorkaround THEN EngineCancel(s, ev) ELSE s
             u == [id |-> s.nextId, text |-> text]
         IN [EngineSpeak(r, u) EXCEPT !.currentUtterance = u, !.ret = "true"]

Speak(s, text, ev) ==
  IF ~available \/ ~hasEngine THEN [s EXCEPT !.ret = "false"]
  ELSE IF text = EmptyText THEN [s EXCEPT !.ret = "false"]
  ELSE IF s.speaking
    THEN [s EXCEPT !.pendingSpeeches = Append(@, text), !.ret = "true"]
    ELSE LET r == IF chromeWorkaround THEN EngineCancel(s, ev) ELSE s
             u == [id |-> s.nextId, text |-> text]
         IN  [EngineSpeak(r, u) EXCEPT !.currentUtterance = u, !.ret = "true"]

\* A call of speak would hand an utterance to the engine.
Submits(s, text) ==
  available /\ hasEngine /\ text # EmptyText /\ ~s.speaking

----------------------------------------------------------------------------
(* part_001: the utterance handlers installed by speak                     *)

\* utterance.onstart
OnStart(s) ==
  [s EXCEPT !.speaking = TRUE,
            !.timeSinceLastEvent = 0,
            !.cbs = Append(@, "start"),
            !.watchdogSet = (@ \/ chromeWorkaround)]

\* utterance.onend
OnEnd(s) ==
  [s EXCEPT !.speaking = FALSE,
            !.currentUtterance = Null,
            !.cbs = Append(@, "end"),
            !.dequeueTimers = IF Len(s.pendingSpeeches) > 0 THEN @ + 1 ELSE @]

\* utterance.onerror
OnError(s) ==
  [s EXCEPT !.speaking = FALSE,
            !.currentUtterance = Null,
            !.cbs = Append(@, "error")]

\* utterance.onpause
OnPause(s) ==
  [s EXCEPT !.paused = TRUE, !.cbs = Append(@, "pause")]

\* utterance.onresume
OnResume(s) ==
  [s EXCEPT !.paused = FALSE, !.cbs = Append(@, "resume")]

\* utterance.onboundary / onmark
OnBoundary(s) == [s EXCEPT !.cbs = Append(@, "boundary")]

\* The same handlers when the client's callback throws: the rest of the try
\* block is skipped and the catch block runs.
OnStartThrows(s) ==
  [s EXCEPT !.speaking = TRUE,
            !.timeSinceLastEvent = 0,
            !.cbs = Append(@, "start"),
            !.thrown = "caught"]

OnEndThrows(s) ==
  [s EXCEPT !.speaking = FALSE,
            !.currentUtterance = Null,
            !.cbs = Append(@, "end"),
            !.thrown = "caught"]

OnErrorThrows(s) == [OnError(s) EXCEPT !.thrown = "caught"]
OnPauseThrows(s) == [OnPause(s) EXCEPT !.thrown = "caught"]
OnResumeThrows(s) == [OnResume(s) EXCEPT !.thrown = "caught"]
OnBoundaryThrows(s) == [OnBoundary(s) EXCEPT !.thrown = "caught"]

\* The setTimeout callback of onend: shift the queue and speak its head.
DequeueNext(s, ev) ==
  LET t == [s EXCEPT !.dequeueTimers = @ - 1]
  IN  IF Len(s.pendingSpeeches) > 0
        THEN [Speak([t EXCEPT !.pendingSpeeches = Tail(@)],
                    Head(s.pendingSpeeches), ev) EXCEPT !.ret = "void"]
        ELSE t

----------------------------------------------------------------------------
(* part_001: pause, resume, cancel, mute                                   *)

\* pause() without its test of state.paused.
PauseIgnoresPaused(s) ==
  IF ~hasEngine \/ ~s.speaking
    THEN [s EXCEPT !.ret = "false"]
    ELSE [EnginePause(s) EXCEPT !.paused = TRUE, !.ret = "true"]

PauseBody(s) ==
  IF ~hasEngine \/ ~s.speaking \/ s.paused
    THEN [s EXCEPT !.ret = "false"]
    ELSE [EnginePause(s) EXCEPT !.paused = TRUE, !.ret = "true"]

ResumeBody(s) ==
  IF ~hasEngine \/ ~s.speaking \/ ~s.paused
    THEN [s EXCEPT !.ret = "false"]
    ELSE [EngineResume(s) EXCEPT !.paused = FALSE, !.ret = "true"]

\* cancel() without the reset of state.pendingSpeeches.
CancelKeepsQueue(s, ev) ==
  IF ~hasEngine
    THEN [s EXCEPT !.ret = "false"]
    ELSE [EngineCancel(s, ev) EXCEPT !.speaking = FALSE,
                                     !.paused = FALSE,
                                     !.currentUtterance = Null,
                                     !.ret = "true"]

CancelBody(s, ev) ==
  IF ~hasEngine
    THEN [s EXCEPT !.ret = "false"]
    ELSE [EngineCancel(s, ev) EXCEPT !.speaking = FALSE,
                                     !.paused = FALSE,
                                     !.currentUtterance = Null,
                                     !.pendingSpeeches = <<>>,
                                     !.ret = "true"]

\* toggleMute(): mute() or unmute(); the utterance's volume is not state here.
ToggleMuteBody(s) ==
  [s EXCEPT !.muted = ~@, !.ret = IF s.muted THEN "false" ELSE "true"]

----------------------------------------------------------------------------
(* part_001: _setupChromeBugWorkaround, the body of its setInterval        *)

WatchdogBody(s, ev) ==
  IF s.speaking /\ ~s.paused /\ s.timeSinceLastEvent > StallLimit
    THEN IF s.enginePaused
           THEN [EngineResume(s) EXCEPT !.timeSinceLastEvent = 0]
           ELSE IF s.currentUtterance # Null
             THEN [EngineCancel(s, ev) EXCEPT
                     !.speaking = FALSE,
                     !.currentUtterance = Null,
                     !.restartTimers = @ \cup {s.currentUtterance.text}]
             ELSE s
    ELSE s

----------------------------------------------------------------------------
(* preload-simple.js: class SpeechManager.  this.supported is hasEngine.   *)

\* cancel() / pause() / resume()
SimpleCancel(s, ev) == IF hasEngine THEN EngineCancel(s, ev) ELSE s

SimplePause(s) == IF hasEngine THEN EnginePause(s) ELSE s

SimpleResume(s) == IF hasEngine THEN EngineResume(s) ELSE s

\* speak(text, options), called with options.onEnd set
SimpleSpeak(s, text, en, ev) ==
  IF ~hasEngine \/ ~en
    THEN [s EXCEPT !.cbs = Append(@, "options.onEnd"), !.ret = "false"]
    ELSE LET r == SimpleCancel(s, ev)
         IN  IF text = EmptyText
               THEN [r EXCEPT !.cbs = Append(@, "options.onEnd"),
                              !.ret = "false"]
               ELSE [EngineSpeak(r, [id |-> s.nextId, text |-> text])
                       EXCEPT !.ret = "true"]

\* utterance.onstart / onend / onerror
SimpleOnStart(s) ==
  [s EXCEPT !.cbs = @ \o <<"onStart", "options.onStart">>]

SimpleOnEnd(s) ==
  [s EXCEPT !.cbs = @ \o <<"onEnd", "options.onEnd">>]

SimpleOnError(s) ==
  [s EXCEPT !.cbs = @ \o <<"onError", "options.onError">>]

\* The same handlers when the first callback throws: nothing catches it.
SimpleOnStartThrows(s) ==
  [s EXCEPT !.cbs = Append(@, "onStart"), !.thrown = "propagated"]
SimpleOnEndThrows(s) ==
  [s EXCEPT !.cbs = Append(@, "onEnd"), !.thrown = "propagated"]
SimpleOnErrorThrows(s) ==
  [s EXCEPT !.cbs = Append(@, "onError"), !.thrown = "propagated"]

----------------------------------------------------------------------------
(* Voices and configuration                                                *)

\* Voices the engine's list holds at most, and times the list changes.
MaxVoices == 2
MaxVoiceChanges == 1

\* _loadVoicesWithRetry: const maxAttempts = 3
maxAttempts == 3

\* Strings that the code takes apart are sequences of characters.
EnUS == <<"e", "n", "-", "U", "S">>
EnGB == <<"e", "n", "-", "G", "B">>
FrFR == <<"f", "r", "-", "F", "R">>
FrCA == <<"f", "r", "-", "C", "A">>

\* String.prototype.startsWith / includes / split('-')[0]
StartsWith(s, p) == Len(p) <= Len(s) /\ SubSeq(s, 1, Len(p)) = p
Includes(s, p) ==
  \E i \in 1..(Len(s) + 1) :
    i + Len(p) - 1 <= Len(s) /\ SubSeq(s, i, i + Len(p) - 1) = p
SplitDash0(s) ==
  LET dashes == {i \in 1..Len(s) : s[i] = "-"}
  IN IF dashes = {} THEN s
     ELSE SubSeq(s, 1, (CHOOSE i \in dashes : \A j \in dashes : i <= j) - 1)

\* null / undefined where a voice is expected
NoVoice == [name |-> "", voiceURI |-> "", lang |-> <<>>, localService |-> FALSE]

\* The voices an engine may offer.
VoicePool ==
  { [name |-> "Alice",  voiceURI |-> "urn:alice",  lang |-> EnUS, localService |-> TRUE],
    [name |-> "Bruce",  voiceURI |-> "urn:bruce",  lang |-> EnUS, localService |-> FALSE],
    [name |-> "Claire", voiceURI |-> "urn:claire", lang |-> FrFR, localService |-> TRUE],
    [name |-> "Daisy",  voiceURI |-> "urn:daisy",  lang |-> EnGB, localService |-> FALSE] }

\* Voice lists without repetition, of at most n voices.
VoiceLists(n) ==
  {l \in UNION {[1..k -> VoicePool] : k \in 0..n} :
     \A i, j \in DOMAIN l : i # j => l[i] # l[j]}

\* Array.prototype.find over a voice list: I is the set of positions where
\* the predicate holds.
Find(voices, I) ==
  IF I = {} THEN NoVoice ELSE voices[CHOOSE i \in I : \A j \in I : i <= j]

\* The manager's voice state as one record, and its write-back.
VCur ==
  [hookSet |-> hookSet, retryTimer |-> retryTimer,
   retriesScheduled |-> retriesScheduled, config |-> config,
   selectedVoice |-> selectedVoice, voicesLoaded |-> voicesLoaded,
   error |-> stateError, ret |-> "void"]

VCommit(op, arg, s) ==
  /\ hookSet' = s.hookSet
  /\ retryTimer' = s.retryTimer
  /\ retriesScheduled' = s.retriesScheduled
  /\ config' = s.config
  /\ selectedVoice' = s.selectedVoice
  /\ voicesLoaded' = s.voicesLoaded
  /\ stateError' = s.error
  /\ vlast' = [op |-> op, arg |-> arg, ret |-> s.ret]

\* part_001: loadVoices
loadVoices(s, voices) ==
  IF voices = <<>> THEN s
  ELSE
    LET n == 1..Len(voices)
        dv == s.config.defaultVoice
        byName == IF dv # ""
                    THEN Find(voices, {i \in n : voices[i].name = dv
                                             \/ voices[i].voiceURI = dv})
                    ELSE NoVoice
        byEnUS == IF byName # NoVoice THEN byName
                  ELSE Find(voices, {i \in n : voices[i].lang = EnUS})
        byEn == IF byEnUS # NoVoice THEN byEnUS
                ELSE Find(voices, {i \in n :
                                     Includes(voices[i].lang, <<"e", "n", "-">>)})
        defaultVoice == IF byEn # NoVoice THEN byEn ELSE voices[1]
    IN [s EXCEPT !.selectedVoice = defaultVoice,
                 !.config.voice = defaultVoice,
                 !.voicesLoaded = TRUE]

\* _loadVoicesWithRetry with the attempts counted one too far.
loadVoicesOneMoreRetry(s, voices, attempt) ==
  IF voices # <<>> THEN loadVoices(s, voices)
  ELSE IF attempt <= maxAttempts
    THEN [s EXCEPT !.hookSet = @ \/ hookSupported,
                   !.retryTimer = attempt + 1,
                   !.retriesScheduled = @ + 1]
    ELSE [s EXCEPT !.error = TRUE]

\* part_001: _loadVoicesWithRetry(attempt)
loadVoicesWithRetry(s, voices, attempt) ==
  IF voices # <<>> THEN loadVoices(s, voices)
  ELSE IF attempt < maxAttempts
    THEN [s EXCEPT !.hookSet = @ \/ hookSupported,
                   !.retryTimer = attempt + 1,
                   !.retriesScheduled = @ + 1]
    ELSE [s EXCEPT !.error = TRUE]

\* part_001: getAvailableVoices
getAvailableVoices == IF ~available \/ ~hasEngine THEN <<>> ELSE engineVoices

\* setVoice that takes the index as a position counted from 1.
setVoiceFromOne(s, v) ==
  LET voices == getAvailableVoices
      n == 1..Len(voices)
      picked ==
        IF v.type = "number"
          THEN IF v.n >= 1 /\ v.n <= Len(voices) THEN voices[v.n] ELSE NoVoice
        ELSE IF v.type = "string"
          THEN Find(voices, {i \in n : voices[i].name = v.s
                                     \/ voices[i].voiceURI = v.s})
        ELSE NoVoice
  IN IF ~available \/ voices = <<>> \/ picked = NoVoice
       THEN [s EXCEPT !.ret = "false"]
       ELSE [s EXCEPT !.selectedVoice = picked, !.config.voice = picked,
                      !.ret = "true"]

\* part_001: setVoice(voiceNameOrIndex).  The argument is a number
\* (type "number", value n), a string (type "string", value s) or something
\* else.
setVoice(s, v) ==
  LET voices == getAvailableVoices
      n == 1..Len(voices)
      picked ==
        IF v.type = "number"
          THEN IF v.n >= 0 /\ v.n < Len(voices) THEN voices[v.n + 1] ELSE NoVoice
        ELSE IF v.type = "string"
          THEN Find(voices, {i \in n : voices[i].name = v.s
                                     \/ voices[i].voiceURI = v.s})
        ELSE NoVoice
  IN IF ~available \/ voices = <<>> \/ picked = NoVoice
       THEN [s EXCEPT !.ret = "false"]
       ELSE [s EXCEPT !.selectedVoice = picked, !.config.voice = picked,
                      !.ret = "true"]

\* preload-simple.js: initVoices
initVoices(s, voices) ==
  LET n == 1..Len(voices)
      uri == s.config.defaultVoice
      lang == s.config.lang
      langPrefix == SplitDash0(lang)
      byURI == IF uri # "" THEN Find(voices, {i \in n : voices[i].voiceURI = uri})
               ELSE s.selectedVoice
      remote == Find(voices, {i \in n : voices[i].lang = lang
                                     /\ ~voices[i].localService})
      exact == IF remote # NoVoice THEN remote
               ELSE Find(voices, {i \in n : voices[i].lang = lang})
      remotePrefix ==
        IF exact # NoVoice THEN exact
        ELSE Find(voices, {i \in n : StartsWith(voices[i].lang, langPrefix)
                                   /\ ~voices[i].localService})
      prefix == IF remotePrefix # NoVoice THEN remotePrefix
                ELSE Find(voices, {i \in n : StartsWith(voices[i].lang, langPrefix)})
      byLang == IF byURI = NoVoice /\ lang # <<>> THEN prefix ELSE byURI
      voice == IF byLang = NoVoice /\ voices # <<>> THEN voices[1] ELSE byLang
  IN [s EXCEPT !.selectedVoice = voice]

\* Numbers are kept in hundredths; NaN is a number of its own.
Num(n) == [nan |-> FALSE, v |-> n]
NaN == [nan |-> TRUE, v |-> 0]

\* An operation's argument: a number n, a string s, or neither.
NoArg == [type |-> "none", n |-> 0, s |-> ""]
NumArg(n) == [type |-> "number", n |-> n, s |-> ""]
StrArg(s) == [type |-> "string", n |-> 0, s |-> s]

\* The configuration a manager is constructed with.
Configs ==
  [defaultVoice : {"", "Claire", "urn:daisy", "Zed"},
   lang : {EnUS, FrFR, FrCA},
   voice : {NoVoice},
   rate : {Num(100)}, pitch : {Num(100)}, volume : {Num(100)}]

DefaultConfig ==
  [defaultVoice |-> "", lang |-> EnUS, voice |-> NoVoice,
   rate |-> Num(100), pitch |-> Num(100), volume |-> Num(100)]

\* The voice state before loading begins.
VBlank(c) ==
  [hookSet |-> FALSE, retryTimer |-> 0, retriesScheduled |-> 0, config |-> c,
   selectedVoice |-> NoVoice, voicesLoaded |-> FALSE, error |-> FALSE,
   ret |-> "void"]

\* No voice is loaded and nothing is scheduled: the voice state in the
\* runs that are about something else.
VoicesIdle ==
  /\ engineVoices = <<>>
  /\ voiceChanges = 0
  /\ hookSupported = FALSE
  /\ hookSet = FALSE
  /\ retryTimer = 0
  /\ retriesScheduled = 0
  /\ config = DefaultConfig
  /\ selectedVoice = NoVoice
  /\ voicesLoaded = FALSE
  /\ vlast = [op |-> "init", arg |-> NoArg, ret |-> "void"]
  /\ voiceChosen = FALSE

----------------------------------------------------------------------------
(* sentiment-analyzer.js: SentimentAnalyzer.analyze.  A text is a sequence *)
(* of pieces: a piece is a run of letters (a word as a reader sees it) or  *)
(* one of the character runs below.  Scores are in tenths.                  *)

MaxPieces == 3

Space == " "
Dot == "."
Comma == ","
BackslashS == "\\s"      \* the two characters backslash and s
BraceTail == "{}'\"]"    \* the five characters { } ' " ]

\* this.emotionKeywords, in the order of Object.entries; a few keywords
\* of each list, with the two that are in two lists.
Emotions == <<"happy", "sad", "angry", "surprised", "confused">>
emotionKeywords ==
  [e \in {"happy", "sad", "angry", "surprised", "confused"} |->
     CASE e = "happy" -> {"happy", "glad", "good"}
       [] e = "sad" -> {"sad", "bad", "upset", "lost"}
       [] e = "angry" -> {"mad", "upset"}
       [] e = "surprised" -> {"wow"}
       [] e = "confused" -> {"odd", "lost"}]

\* this.modifiers
negation == {"not", "never"}
intensifiers == {"very"}

\* text.toLowerCase(), piece by piece.
toLowerCase(text) ==
  [i \in 1..Len(text) |->
     CASE text[i] = "Happy" -> "happy"
       [] text[i] = "This" -> "this"
       [] text[i] = "I" -> "i"
       [] OTHER -> text[i]]

\* The characters of the class [.,!?;()\\[\\] that the texts here use.
ClassChars == {Dot, Comma}

\* lowerText.split(/\\s+|[.,!?;()\\[\\]{}'"]/g).filter(word => word.length > 0)
\* The pattern is read as the regular expression literal is written: its
\* first alternative is a backslash followed by one or more "s", its
\* second is one character of the class [.,!?;()\[ followed by the five
\* characters {}'"].  A word of the result is the sequence of the pieces
\* between two matches.  (In no text here a backslash-s is followed by
\* a word that starts with "s", which the first alternative would take
\* with it.)
RECURSIVE split(_, _, _)
split(text, i, word) ==
  LET done == IF word = <<>> THEN <<>> ELSE <<word>>
  IN IF i > Len(text) THEN done
     ELSE IF text[i] = BackslashS THEN done \o split(text, i + 1, <<>>)
     ELSE IF text[i] \in ClassChars /\ i < Len(text) /\ text[i + 1] = BraceTail
       THEN done \o split(text, i + 2, <<>>)
     ELSE split(text, i + 1, Append(word, text[i]))

\* list.includes(word): a word of several pieces is no keyword.
includes(list, word) == Len(word) = 1 /\ word[1] \in list

BaseScore == 10
NegationWindow == 4
Threshold == 2
ConfidenceDivisor == 3

\* The score one keyword adds: 1.0, -1.0 under a negation, times 1.5
\* under an intensifier.
wordScore(negationActive, intensifierActive) ==
  LET score == IF negationActive THEN 0 - BaseScore ELSE BaseScore
  IN IF intensifierActive THEN (score * 3) \div 2 ELSE score

\* for (let i = 0; i < words.length; i++) { ... }, with i counted from 0.
RECURSIVE scan(_, _, _)
scan(words, i, st) ==
  IF i >= Len(words) THEN st.scores
  ELSE
    LET word == words[i + 1]
    IN IF includes(negation, word)
         THEN scan(words, i + 1, [st EXCEPT !.negationActive = TRUE])
       ELSE IF includes(intensifiers, word)
         THEN scan(words, i + 1, [st EXCEPT !.intensifierActive = TRUE])
       ELSE
         scan(words, i + 1,
              [scores |->
                 [e \in DOMAIN st.scores |->
                    IF includes(emotionKeywords[e], word)
                      THEN st.scores[e]
                             + wordScore(st.negationActive, st.intensifierActive)
                      ELSE st.scores[e]],
               negationActive |->
                 st.negationActive /\ ~(i > 0 /\ i % NegationWindow = 0),
               intensifierActive |-> FALSE])

\* The loop over Object.entries(scores): the first emotion, in the order
\* of Emotions, whose score is above every score before it and above the
\* threshold.
\* The same loop with >= for >: of two equal scores the later one wins.
RECURSIVE maxOfLast(_, _, _)
maxOfLast(scores, k, best) ==
  IF k > Len(Emotions) THEN best
  ELSE IF scores[Emotions[k]] >= best.maxScore
    THEN maxOfLast(scores, k + 1,
                   [maxEmotion |-> Emotions[k], maxScore |-> scores[Emotions[k]]])
  ELSE maxOfLast(scores, k + 1, best)

RECURSIVE maxOf(_, _, _)
maxOf(scores, k, best) ==
  IF k > Len(Emotions) THEN best
  ELSE IF scores[Emotions[k]] > best.maxScore
    THEN maxOf(scores, k + 1,
               [maxEmotion |-> Emotions[k], maxScore |-> scores[Emotions[k]]])
  ELSE maxOf(scores, k + 1, best)

NoScores == [e \in {"happy", "sad", "angry", "surprised", "confused"} |-> 0]

\* What is no string, as an argument of analyze.
NotAString == <<"undefined">>
NonStrings == {NotAString, <<"null">>, <<"number">>, <<"object">>}

\* The result that stands for a TypeError thrown out of analyze.
Raised == [emotion |-> "TypeError", confidence |-> <<0, 1>>, scores |-> NoScores]

\* The words of a text and their scores, lines 69-134.
scoresOf(text) ==
  scan(split(toLowerCase(text), 1, <<>>), 0,
       [scores |-> NoScores, negationActive |-> FALSE,
        intensifierActive |-> FALSE])

\* analyze without its input guard: text.toLowerCase() throws on what is
\* no string, and the empty string is scanned as every other.
analyzeUnguarded(text) ==
  IF text \in NonStrings THEN Raised
  ELSE
    LET best == maxOf(scoresOf(text), 1,
                      [maxEmotion |-> "neutral", maxScore |-> Threshold])
    IN [emotion |-> best.maxEmotion,
        confidence |-> <<best.maxScore, 10 * ConfidenceDivisor>>,
        scores |-> scoresOf(text)]

\* analyze(text).  confidence is Math.min(maxScore / 3, 1) as the pair of
\* its numerator in tenths and its denominator.
analyze(text) ==
  IF text \in NonStrings \/ text = <<>>
    THEN [emotion |-> "neutral", confidence |-> <<0, 1>>, scores |-> NoScores]
  ELSE
    LET words == split(toLowerCase(text), 1, <<>>)
        scores == scan(words, 0, [scores |-> NoScores, negationActive |-> FALSE,
                                  intensifierActive |-> FALSE])
        best == maxOf(scores, 1, [maxEmotion |-> "neutral", maxScore |-> Threshold])
    IN [emotion |-> best.maxEmotion,
        confidence |-> IF best.maxScore < 10 * ConfidenceDivisor
                         THEN <<best.maxScore, 10 * ConfidenceDivisor>>
                         ELSE <<10, 10>>,
        scores |-> scores]

\* What analysis holds as the result before analyze has returned.
NoResult == [emotion |-> "none", confidence |-> <<0, 1>>, scores |-> NoScores]

\* The number of characters of a piece and of a word.
Chars(piece) ==
  CASE piece \in {Space, Dot, Comma} -> 1
    [] piece \in {BackslashS, "ok", "i"} -> 2
    [] piece \in {"the", "cat", "dog", "and"} -> 3
    [] piece \in {"this", "that"} -> 4
    [] OTHER -> 5

RECURSIVE length(_)
length(word) ==
  IF word = <<>> THEN 0 ELSE Chars(Head(word)) + length(Tail(word))

\* isStopWord(word), with a few of the stop words.
stopWords == {"the", "and", "this", "that"}
isStopWord(word) == includes(stopWords, word)

\* The keys of wordFrequency in the order of Object.entries: the words in
\* the order of their first occurrence.
RECURSIVE entries(_, _)
entries(words, seen) ==
  IF words = <<>> THEN <<>>
  ELSE IF Head(words) \in seen THEN entries(Tail(words), seen)
  ELSE <<Head(words)>> \o entries(Tail(words), seen \cup {Head(words)})

\* wordFrequency[word]
frequency(words, word) == Cardinality({i \in 1..Len(words) : words[i] = word})

\* .sort((a, b) => b[1] - a[1]): a stable sort, the higher count first.
RECURSIVE sort(_, _, _)
sort(keys, words, count) ==
  IF count = 0 THEN <<>>
  ELSE SelectSeq(keys, LAMBDA w : frequency(words, w) = count)
         \o sort(keys, words, count - 1)

\* array.slice(0, end): a negative end counts from the end of the array.
slice(array, end) ==
  LET to == IF end < 0 THEN (IF Len(array) + end < 0 THEN 0 ELSE Len(array) + end)
            ELSE IF end > Len(array) THEN Len(array) ELSE end
  IN SubSeq(array, 1, to)

DefaultLimit == 5
\* The second argument: left out (undefined), or a number.
NoLimit == [given |-> FALSE, n |-> 0]
GivenLimit(n) == [given |-> TRUE, n |-> n]
limitOf(limit) == IF limit.given THEN limit.n ELSE DefaultLimit

\* extractKeywords(text, limit = 5)
extractKeywords(text, limit) ==
  IF text \in NonStrings \/ text = <<>> THEN <<>>
  ELSE
    LET words == SelectSeq(split(toLowerCase(text), 1, <<>>),
                           LAMBDA word : length(word) > 2 /\ ~isStopWord(word))
    IN slice(sort(entries(words, {}), words, Len(words)), limitOf(limit))

\* No text is to be analysed: the sentiment state in the runs that are
\* about something else.
SentimentIdle ==
  /\ analysis = [called |-> FALSE, text |-> <<>>, result |-> NoResult]
  /\ keywords = [called |-> FALSE, text |-> <<>>, limit |-> NoLimit,
                 result |-> <<>>]

----------------------------------------------------------------------------
Init ==
  /\ impl \in {"queue", "simple"}
  /\ hasEngine \in BOOLEAN
  /\ available \in (IF hasEngine THEN BOOLEAN ELSE {FALSE})
  /\ initialized = available
  /\ stateError = ~available
  /\ chromeWorkaround \in (IF available /\ impl = "queue" THEN BOOLEAN ELSE {FALSE})
  /\ speaking = FALSE
  /\ paused = FALSE
  /\ muted = FALSE
  /\ enabled = TRUE
  /\ currentUtterance = Null
  /\ pendingSpeeches = <<>>
  /\ watchdogSet = FALSE
  /\ timeSinceLastEvent = StallLimit + 1
  /\ dequeueTimers = 0
  /\ restartTimers = {}
  /\ engineQueue = <<>>
  /\ engineStarted = FALSE
  /\ enginePaused = FALSE
  /\ engineNotice = "none"
  /\ stale = 0
  /\ nextId = 1
  /\ speakCalls = 0
  /\ destroyed = FALSE
  /\ cancelled = FALSE
  /\ VoicesIdle
  /\ SentimentIdle
  /\ last = [op |-> "init", arg |-> EmptyText, ret |-> "void", cbs |-> <<>>,
             calls |-> <<>>, pendingBefore |-> 0, thrown |-> "none"]

\* The client calls speak(text).
ClientSpeak ==
  /\ impl = "queue"
  /\ ~destroyed
  /\ \E text \in {EmptyText, speakCalls + 1}, ev \in 0..Len(engineQueue) :
       /\ text # EmptyText => speakCalls < MaxSpeak
       /\ Submits(Cur, text) => nextId <= MaxUtterances
       /\ speakCalls' = IF text = EmptyText THEN speakCalls ELSE speakCalls + 1
       /\ Commit("speak", text, Speak(Cur, text, ev))
  /\ cancelled' = FALSE
  /\ UNCHANGED <<envVars, destroyed, otherVars, enabled>>

ClientPause ==
  /\ impl = "queue"
  /\ ~destroyed
  /\ Commit("pause", EmptyText, PauseBody(Cur))
  /\ UNCHANGED <<envVars, destroyed, cancelled, otherVars, enabled, speakCalls>>

ClientResume ==
  /\ impl = "queue"
  /\ ~destroyed
  /\ Commit("resume", EmptyText, ResumeBody(Cur))
  /\ UNCHANGED <<envVars, destroyed, cancelled, otherVars, enabled, speakCalls>>

ClientCancel ==
  /\ impl = "queue"
  /\ ~destroyed
  /\ \E ev \in 0..Len(engineQueue) : Commit("cancel", EmptyText, CancelBody(Cur, ev))
  /\ cancelled' = TRUE
  /\ UNCHANGED <<envVars, destroyed, otherVars, enabled, speakCalls>>

ClientToggleMute ==
  /\ impl = "queue"
  /\ ~destroyed
  /\ Commit("toggleMute", EmptyText, ToggleMuteBody(Cur))
  /\ UNCHANGED <<envVars, destroyed, cancelled, otherVars, enabled, speakCalls>>

\* ClaudeRobot.destroy(): of the speech manager it only calls cancel().
\* The disposed manager gets no further call from its client.
Destroy ==
  /\ impl = "queue"
  /\ ~destroyed
  /\ destroyed' = TRUE
  /\ \E ev \in 0..Len(engineQueue) :
       Commit("destroy", EmptyText, CancelBody(Cur, ev))
  /\ cancelled' = TRUE
  /\ UNCHANGED <<envVars, otherVars, enabled, speakCalls>>

\* The engine begins to speak the head of its queue.
EngineStart ==
  /\ impl = "queue"
  /\ engineQueue # <<>> /\ ~engineStarted /\ ~enginePaused
  /\ \E throws \in BOOLEAN :
       LET s == [Cur EXCEPT !.engineStarted = TRUE]
       IN Commit("onstart", EmptyText,
                 IF throws THEN OnStartThrows(s) ELSE OnStart(s))
  /\ UNCHANGED <<envVars, destroyed, cancelled, otherVars, enabled, speakCalls>>

\* The engine, not paused, finishes the utterance it is speaking.
EngineEnd ==
  /\ impl = "queue"
  /\ engineQueue # <<>> /\ engineStarted /\ ~enginePaused
  /\ \E throws \in BOOLEAN :
       LET s == [Cur EXCEPT !.engineQueue = Tail(@),
                            !.engineStarted = FALSE,
                            !.engineNotice = "none"]
       IN Commit("onend", EmptyText,
                 IF throws THEN OnEndThrows(s) ELSE OnEnd(s))
  /\ dequeueTimers' <= MaxTimers
  /\ UNCHANGED <<envVars, destroyed, cancelled, otherVars, enabled, speakCalls>>

\* The engine fails on the head of its queue.
EngineError ==
  /\ impl = "queue"
  /\ engineQueue # <<>>
  /\ \E throws \in BOOLEAN :
       LET s == [Cur EXCEPT !.engineQueue = Tail(@),
                            !.engineStarted = FALSE,
                            !.engineNotice = "none"]
       IN Commit("onerror", EmptyText,
                 IF throws THEN OnErrorThrows(s) ELSE OnError(s))
  /\ UNCHANGED <<envVars, destroyed, cancelled, otherVars, enabled, speakCalls>>

\* The engine delivers 'pause' or 'resume' to the utterance being spoken.
EngineNotify ==
  /\ impl = "queue"
  /\ engineNotice # "none"
  /\ \E throws \in BOOLEAN :
       LET s == [Cur EXCEPT !.engineNotice = "none"]
       IN IF engineNotice = "pause"
            THEN Commit("onpause", EmptyText,
                        IF throws THEN OnPauseThrows(s) ELSE OnPause(s))
            ELSE Commit("onresume", EmptyText,
                        IF throws THEN OnResumeThrows(s) ELSE OnResume(s))
  /\ UNCHANGED <<envVars, destroyed, cancelled, otherVars, enabled, speakCalls>>

\* The engine delivers 'boundary' or 'mark' for the utterance being spoken.
EngineBoundary ==
  /\ impl = "queue"
  /\ engineQueue # <<>> /\ engineStarted /\ ~enginePaused
  /\ \E throws \in BOOLEAN, op \in {"onboundary", "onmark"} :
       Commit(op, EmptyText,
              IF throws THEN OnBoundaryThrows(Cur) ELSE OnBoundary(Cur))
  /\ UNCHANGED <<envVars, destroyed, cancelled, otherVars, enabled, speakCalls>>

\* The last event of a cancelled utterance arrives: 'end' or 'error'.
EngineStaleEvent ==
  /\ impl = "queue"
  /\ stale > 0
  /\ \E throws \in BOOLEAN :
       LET s == [Cur EXCEPT !.stale = @ - 1]
       IN \/ /\ Commit("onend", EmptyText,
                       IF throws THEN OnEndThrows(s) ELSE OnEnd(s))
             /\ dequeueTimers' <= MaxTimers
          \/ Commit("onerror", EmptyText,
                    IF throws THEN OnErrorThrows(s) ELSE OnError(s))
  /\ UNCHANGED <<envVars, destroyed, cancelled, otherVars, enabled, speakCalls>>

\* A 50 ms timeout of onend fires.
DequeueTimer ==
  /\ impl = "queue"
  /\ dequeueTimers > 0
  /\ \E ev \in 0..Len(engineQueue) :
       /\ (pendingSpeeches # <<>> /\ Submits(Cur, Head(pendingSpeeches)))
            => nextId <= MaxUtterances
       /\ Commit("dequeue", EmptyText, DequeueNext(Cur, ev))
  /\ UNCHANGED <<envVars, destroyed, cancelled, otherVars, enabled, speakCalls>>

\* More than StallLimit seconds pass without a recorded event.
Tick ==
  /\ impl = "queue"
  /\ timeSinceLastEvent <= StallLimit
  /\ timeSinceLastEvent' = StallLimit + 1
  /\ UNCHANGED <<envVars, destroyed, cancelled, otherVars, enabled, speakCalls, engineVars, last, speaking,
                 paused, muted, currentUtterance, pendingSpeeches,
                 watchdogSet, dequeueTimers, restartTimers>>

\* The watchdog's interval fires.
WatchdogFire ==
  /\ impl = "queue"
  /\ watchdogSet
  /\ \E ev \in 0..Len(engineQueue) : Commit("watchdog", EmptyText, WatchdogBody(Cur, ev))
  /\ UNCHANGED <<envVars, destroyed, cancelled, otherVars, enabled, speakCalls>>

\* A 100 ms restart timeout of the watchdog fires: this.speak(currentText).
RestartTimer ==
  /\ impl = "queue"
  /\ \E text \in restartTimers, ev \in 0..Len(engineQueue) :
       /\ Submits(Cur, text) => nextId <= MaxUtterances
       /\ Commit("restart", text,
                 [Speak([Cur EXCEPT !.restartTimers = @ \ {text}], text, ev)
                    EXCEPT !.ret = "void"])
  /\ UNCHANGED <<envVars, destroyed, cancelled, otherVars, enabled, speakCalls>>

\* preload-simple.js: the client calls speak(text, {onEnd}).
SimpleClientSpeak ==
  /\ impl = "simple"
  /\ \E text \in {EmptyText, speakCalls + 1}, ev \in 0..Len(engineQueue) :
       /\ text # EmptyText => speakCalls < MaxSpeak
       /\ (hasEngine /\ enabled /\ text # EmptyText) => nextId <= MaxUtterances
       /\ speakCalls' = IF text = EmptyText THEN speakCalls ELSE speakCalls + 1
       /\ Commit("speak", text, SimpleSpeak(Cur, text, enabled, ev))
  /\ UNCHANGED <<envVars, destroyed, cancelled, otherVars, enabled>>

\* preload-simple.js: the click handler of the mute button.
SimpleToggle ==
  /\ impl = "simple"
  /\ enabled' = ~enabled
  /\ \E ev \in 0..Len(engineQueue) :
       Commit("toggle", EmptyText, IF enabled THEN SimpleCancel(Cur, ev) ELSE Cur)
  /\ UNCHANGED <<envVars, destroyed, cancelled, otherVars, speakCalls>>

SimpleClientPause ==
  /\ impl = "simple"
  /\ Commit("pause", EmptyText, SimplePause(Cur))
  /\ UNCHANGED <<envVars, destroyed, cancelled, otherVars, enabled, speakCalls>>

SimpleClientResume ==
  /\ impl = "simple"
  /\ Commit("resume", EmptyText, SimpleResume(Cur))
  /\ UNCHANGED <<envVars, destroyed, cancelled, otherVars, enabled, speakCalls>>

SimpleEngineStart ==
  /\ impl = "simple"
  /\ engineQueue # <<>> /\ ~engineStarted /\ ~enginePaused
  /\ \E throws \in BOOLEAN :
       LET s == [Cur EXCEPT !.engineStarted = TRUE]
       IN Commit("onstart", EmptyText,
                 IF throws THEN SimpleOnStartThrows(s) ELSE SimpleOnStart(s))
  /\ UNCHANGED <<envVars, destroyed, cancelled, otherVars, enabled, speakCalls>>

SimpleEngineEnd ==
  /\ impl = "simple"
  /\ \E throws \in BOOLEAN :
       LET head == [Cur EXCEPT !.engineQueue = Tail(@),
                               !.engineStarted = FALSE,
                               !.engineNotice = "none"]
           late == [Cur EXCEPT !.stale = @ - 1]
       IN \/ /\ engineQueue # <<>> /\ engineStarted /\ ~enginePaused
             /\ Commit("onend", EmptyText,
                       IF throws THEN SimpleOnEndThrows(head)
                       ELSE SimpleOnEnd(head))
          \/ /\ stale > 0
             /\ Commit("onend", EmptyText,
                       IF throws THEN SimpleOnEndThrows(late)
                       ELSE SimpleOnEnd(late))
  /\ UNCHANGED <<envVars, destroyed, cancelled, otherVars, enabled, speakCalls>>

SimpleEngineError ==
  /\ impl = "simple"
  /\ \E throws \in BOOLEAN :
       LET head == [Cur EXCEPT !.engineQueue = Tail(@),
                               !.engineStarted = FALSE,
                               !.engineNotice = "none"]
           late == [Cur EXCEPT !.stale = @ - 1]
       IN \/ /\ engineQueue # <<>>
             /\ Commit("onerror", EmptyText,
                       IF throws THEN SimpleOnErrorThrows(head)
                       ELSE SimpleOnError(head))
          \/ /\ stale > 0
             /\ Commit("onerror", EmptyText,
                       IF throws THEN SimpleOnErrorThrows(late)
                       ELSE SimpleOnError(late))
  /\ UNCHANGED <<envVars, destroyed, cancelled, otherVars, enabled, speakCalls>>

Next ==
  \/ ClientSpeak
  \/ ClientPause
  \/ ClientResume
  \/ ClientCancel
  \/ ClientToggleMute
  \/ Destroy
  \/ EngineStart
  \/ EngineEnd
  \/ EngineError
  \/ EngineNotify
  \/ EngineBoundary
  \/ EngineStaleEvent
  \/ DequeueTimer
  \/ Tick
  \/ WatchdogFire
  \/ RestartTimer
  \/ SimpleClientSpeak
  \/ SimpleToggle
  \/ SimpleClientPause
  \/ SimpleClientResume
  \/ SimpleEngineStart
  \/ SimpleEngineEnd
  \/ SimpleEngineError

Spec == Init /\ [][Next]_vars

----------------------------------------------------------------------------
(* Voice loading and voice selection                                       *)

hostVars == <<impl, hasEngine, available, initialized, chromeWorkaround>>
speechVars == <<mgrVars, engineVars, enabled, speakCalls, last, destroyed,
               cancelled>>

\* Nothing was spoken yet: the speech state in the runs that are about
\* something else.
SpeechIdle ==
  /\ speaking = FALSE /\ paused = FALSE /\ muted = FALSE /\ enabled = TRUE
  /\ currentUtterance = Null /\ pendingSpeeches = <<>>
  /\ watchdogSet = FALSE /\ timeSinceLastEvent = StallLimit + 1
  /\ dequeueTimers = 0 /\ restartTimers = {}
  /\ engineQueue = <<>> /\ engineStarted = FALSE /\ enginePaused = FALSE
  /\ engineNotice = "none" /\ stale = 0 /\ nextId = 1
  /\ speakCalls = 0 /\ destroyed = FALSE /\ cancelled = FALSE
  /\ last = [op |-> "init", arg |-> EmptyText, ret |-> "void", cbs |-> <<>>,
             calls |-> <<>>, pendingBefore |-> 0, thrown |-> "none"]

\* The state after the constructor, which starts to load the voices:
\* part_001 init calls _loadVoicesWithRetry(), preload-simple's constructor
\* calls initVoices() and installs it as onvoiceschanged.
VoicesInit ==
  /\ impl \in {"queue", "simple"}
  /\ hasEngine = TRUE
  /\ available \in (IF impl = "queue" THEN BOOLEAN ELSE {TRUE})
  /\ initialized = available
  /\ chromeWorkaround = FALSE
  /\ SpeechIdle
  /\ engineVoices \in VoiceLists(MaxVoices)
  /\ voiceChanges = 0
  /\ hookSupported \in BOOLEAN
  /\ \E c \in Configs :
       LET s == IF ~available THEN [VBlank(c) EXCEPT !.error = TRUE]
                ELSE IF impl = "queue"
                  THEN loadVoicesWithRetry(VBlank(c), engineVoices, 0)
                ELSE [initVoices(VBlank(c), engineVoices)
                        EXCEPT !.hookSet = hookSupported]
       IN /\ hookSet = s.hookSet
          /\ retryTimer = s.retryTimer
          /\ retriesScheduled = s.retriesScheduled
          /\ config = s.config
          /\ selectedVoice = s.selectedVoice
          /\ voicesLoaded = s.voicesLoaded
          /\ stateError = s.error
  /\ vlast = [op |-> "init", arg |-> NoArg, ret |-> "void"]
  /\ voiceChosen = FALSE
  /\ SentimentIdle

\* The engine's voice list grows (voices load asynchronously) and the
\* engine fires 'voiceschanged'.
VoicesChanged ==
  /\ voiceChanges < MaxVoiceChanges
  /\ \E l \in VoiceLists(MaxVoices) :
       /\ Len(l) > Len(engineVoices)
       /\ SubSeq(l, 1, Len(engineVoices)) = engineVoices
       /\ engineVoices' = l
       /\ IF hookSet
            THEN VCommit("voiceschanged", NoArg,
                         IF impl = "queue" THEN loadVoices(VCur, l)
                         ELSE initVoices(VCur, l))
            ELSE UNCHANGED <<hookSet, retryTimer, retriesScheduled, config,
                             selectedVoice, voicesLoaded, stateError, vlast>>
  /\ voiceChanges' = voiceChanges + 1
  /\ UNCHANGED <<hostVars, speechVars, sentVars, voiceChosen, hookSupported>>

\* The 1 s timeout of _loadVoicesWithRetry fires.
VoiceRetryTimer ==
  /\ impl = "queue"
  /\ retryTimer > 0
  /\ VCommit("retry", NumArg(retryTimer),
             loadVoicesWithRetry([VCur EXCEPT !.retryTimer = 0], engineVoices,
                                 retryTimer))
  /\ UNCHANGED <<hostVars, speechVars, sentVars, voiceChosen, engineVoices, voiceChanges,
                 hookSupported>>

\* What a client may pass to setVoice.
VoiceArgs ==
  {NumArg(n) : n \in -1..MaxVoices}
    \cup {StrArg(s) : s \in {"Alice", "urn:daisy", "Zed"}}
    \cup {NoArg}

\* The client calls setVoice(v).
ClientSetVoice ==
  /\ impl = "queue"
  /\ \E v \in VoiceArgs :
       /\ VCommit("setVoice", v, setVoice(VCur, v))
       /\ voiceChosen' = (voiceChosen \/ setVoice(VCur, v).ret = "true")
  /\ UNCHANGED <<hostVars, speechVars, sentVars, engineVoices, voiceChanges,
                 hookSupported>>

VoicesNext ==
  \/ VoicesChanged
  \/ VoiceRetryTimer
  \/ ClientSetVoice

SpecVoices == VoicesInit /\ [][VoicesNext]_vars

----------------------------------------------------------------------------
(* part_001: setRate, setPitch, setVolume.  Values are in hundredths.      *)

RateMin == 10
RateMax == 1000
PitchMin == 0
PitchMax == 200
VolumeMin == 0
VolumeMax == 100

\* JavaScript's a < b on numbers: false when either is NaN.
Less(a, b) == ~a.nan /\ ~b.nan /\ a.v < b.v

\* if (x < lo) x = lo; if (x > hi) x = hi;
Limit(x, lo, hi) ==
  LET x1 == IF Less(x, Num(lo)) THEN Num(lo) ELSE x
  IN IF Less(Num(hi), x1) THEN Num(hi) ELSE x1

setRate(s, rate) == [s EXCEPT !.config.rate = Limit(rate, RateMin, RateMax)]
setPitch(s, pitch) == [s EXCEPT !.config.pitch = Limit(pitch, PitchMin, PitchMax)]
setVolume(s, volume) ==
  [s EXCEPT !.config.volume = Limit(volume, VolumeMin, VolumeMax)]

\* The numbers a client passes: below, at, inside, and above each range,
\* and NaN.
NumInputs ==
  {Num(n) : n \in {0 - 500, 0 - 1, 0, 5, 10, 55, 100, 101, 150, 200, 201,
                    1000, 1001, 10000}} \cup {NaN}

TuningInit ==
  /\ impl = "queue"
  /\ hasEngine = TRUE /\ available = TRUE /\ initialized = TRUE
  /\ stateError = FALSE
  /\ chromeWorkaround = FALSE
  /\ SpeechIdle
  /\ VoicesIdle
  /\ SentimentIdle

ClientSetRate ==
  /\ \E x \in NumInputs :
       VCommit("setRate", [type |-> "number", n |-> x, s |-> ""], setRate(VCur, x))
  /\ UNCHANGED <<hostVars, speechVars, sentVars, voiceChosen, engineVoices, voiceChanges,
                 hookSupported>>

ClientSetPitch ==
  /\ \E x \in NumInputs :
       VCommit("setPitch", [type |-> "number", n |-> x, s |-> ""], setPitch(VCur, x))
  /\ UNCHANGED <<hostVars, speechVars, sentVars, voiceChosen, engineVoices, voiceChanges,
                 hookSupported>>

ClientSetVolume ==
  /\ \E x \in NumInputs :
       VCommit("setVolume", [type |-> "number", n |-> x, s |-> ""],
               setVolume(VCur, x))
  /\ UNCHANGED <<hostVars, speechVars, sentVars, voiceChosen, engineVoices, voiceChanges,
                 hookSupported>>

TuningNext ==
  \/ ClientSetRate
  \/ ClientSetPitch
  \/ ClientSetVolume

SpecTuning == TuningInit /\ [][TuningNext]_vars

----------------------------------------------------------------------------
(* Sentiment analysis: a client calls analyze with any text.  analyze     *)
(* keeps no state, so one call a behaviour shows all it does.              *)

Pieces ==
  {"happy", "Happy", "glad", "bad", "upset", "not", "very",
   Space, Dot, BackslashS, BraceTail}

Texts == UNION {[1..n -> Pieces] : n \in 0..MaxPieces}

\* "This is not good at all, I am very sad"
NotGoodVerySad ==
  <<"This", Space, "is", Space, "not", Space, "good", Space, "at", Space,
    "all", Comma, Space, "I", Space, "am", Space, "very", Space, "sad">>

\* Longer texts that a client passes.
SampleTexts == {NotGoodVerySad}

SentimentInit ==
  /\ impl = "queue"
  /\ hasEngine = TRUE /\ available = TRUE /\ initialized = TRUE
  /\ stateError = FALSE
  /\ chromeWorkaround = FALSE
  /\ SpeechIdle
  /\ VoicesIdle
  /\ \E text \in Texts \cup NonStrings \cup SampleTexts :
       analysis = [called |-> FALSE, text |-> text, result |-> NoResult]
  /\ keywords = [called |-> FALSE, text |-> <<>>, limit |-> NoLimit,
                 result |-> <<>>]

\* The client's one call analyze(text) returns.
Analyze ==
  /\ ~analysis.called
  /\ analysis' = [analysis EXCEPT !.called = TRUE,
                                  !.result = analyze(analysis.text)]
  /\ UNCHANGED <<envVars, speechVars, voiceVars, keywords>>

SentimentNext == Analyze

SpecSentiment == SentimentInit /\ [][SentimentNext]_vars

----------------------------------------------------------------------------
(* The scan of analyze on texts of several words: the words are separated  *)
(* by a backslash and an s, which the split pattern takes as a separator.   *)

MaxWords == 6

ScanWords == {"not", "happy", "the"}

RECURSIVE Join(_)
Join(ws) ==
  IF Len(ws) = 0 THEN <<>>
  ELSE IF Len(ws) = 1 THEN <<ws[1]>>
  ELSE <<Head(ws), BackslashS>> \o Join(Tail(ws))

WordTexts == {Join(ws) : ws \in UNION {[1..n -> ScanWords] : n \in 0..MaxWords}}

ScanInit ==
  /\ impl = "queue"
  /\ hasEngine = TRUE /\ available = TRUE /\ initialized = TRUE
  /\ stateError = FALSE
  /\ chromeWorkaround = FALSE
  /\ SpeechIdle
  /\ VoicesIdle
  /\ \E text \in WordTexts :
       analysis = [called |-> FALSE, text |-> text, result |-> NoResult]
  /\ keywords = [called |-> FALSE, text |-> <<>>, limit |-> NoLimit,
                 result |-> <<>>]

SpecScan == ScanInit /\ [][SentimentNext]_vars

----------------------------------------------------------------------------
(* Keyword extraction: a client calls extractKeywords once.                *)

KeywordPieces == {"This", "the", "cat", "dog", "ok", Space, BackslashS}

\* Longer texts, with words that repeat.
KeywordSamples ==
  {<<"cat", BackslashS, "dog", BackslashS, "dog">>,
   <<"ok", BackslashS, "cat", BackslashS, "the", BackslashS, "dog",
     BackslashS, "dog", BackslashS, "cat", BackslashS, "dog">>,
   <<"the", Space, "cat", Space, "and", Space, "the", Space, "dog">>}

KeywordTexts ==
  UNION {[1..n -> KeywordPieces] : n \in 0..MaxPieces} \cup KeywordSamples
    \cup NonStrings

Limits == {GivenLimit(n) : n \in {0 - 1, 0, 1, 2}} \cup {NoLimit}

KeywordsInit ==
  /\ impl = "queue"
  /\ hasEngine = TRUE /\ available = TRUE /\ initialized = TRUE
  /\ stateError = FALSE
  /\ chromeWorkaround = FALSE
  /\ SpeechIdle
  /\ VoicesIdle
  /\ analysis = [called |-> FALSE, text |-> <<>>, result |-> NoResult]
  /\ \E text \in KeywordTexts, limit \in Limits :
       keywords = [called |-> FALSE, text |-> text, limit |-> limit,
                   result |-> <<>>]

\* The client's one call extractKeywords(text, limit) returns.
ExtractKeywords ==
  /\ ~keywords.called
  /\ keywords' = [keywords EXCEPT
                    !.called = TRUE,
                    !.result = extractKeywords(keywords.text, keywords.limit)]
  /\ UNCHANGED <<envVars, speechVars, voiceVars, analysis>>

KeywordsNext == ExtractKeywords

SpecKeywords == KeywordsInit /\ [][KeywordsNext]_vars

----------------------------------------------------------------------------
(* Properties                                                              *)

\* A step hands a new utterance to speechSynthesis.speak.
SubmitStep == nextId' = nextId + 1

\* The manager's state is Idle.
Idle == ~speaking /\ ~paused /\ currentUtterance = Null

\* C1: speak(B), called while an accepted utterance A is still in the
\* engine (no 'end' for A yet, started or not), does not hand B to the
\* engine: B waits in pendingSpeeches.
C1_SpeakOrdering ==
  [][(ClientSpeak /\ last'.ret = "true" /\ engineQueue # <<>>)
       => (~SubmitStep /\ engineQueue' = engineQueue)]_vars

\* C2: at most one utterance submitted by the manager is outstanding in
\* the engine.
C2_OneOutstanding == impl = "queue" => Len(engineQueue) <= 1

\* C3: state.speaking is true exactly when state.currentUtterance is set
\* (an utterance that signalled end or error is no longer current).
C3_SpeakingIffCurrent ==
  impl = "queue" => (speaking <=> currentUtterance # Null)

\* C4: a request made later is never handed to the engine ahead of requests
\* that are still waiting in pendingSpeeches: a speak() that submits
\* directly finds the queue empty.
C4_QueueFifo ==
  [][(ClientSpeak /\ SubmitStep) => pendingSpeeches = <<>>]_vars

\* C5 as stated: cancel() always returns true and leaves the manager Idle
\* with an empty queue.
C5_CancelAlwaysTrue ==
  (impl = "queue" /\ last.op = "cancel")
    => (last.ret = "true" /\ Idle /\ pendingSpeeches = <<>>)

\* C5 amended: cancel() returns true when window.speechSynthesis exists
\* (and then calls its cancel()) and false when it does not; either way the
\* manager is then Idle with an empty queue, and a speak() of a non-empty
\* text that follows on an available manager is submitted directly, the
\* queue staying empty.
C5_CancelResets ==
  /\ [](impl = "queue" /\ last.op = "cancel"
          => /\ last.ret = (IF hasEngine THEN "true" ELSE "false")
             /\ Idle
             /\ pendingSpeeches = <<>>)
  /\ [][(hasEngine /\ last'.op = "cancel" /\ ClientCancel)
          => (engineQueue' = <<>> /\ last'.calls = <<"cancel">>)]_vars
  /\ [][(last.op = "cancel" /\ available /\ last'.op = "speak"
           /\ last'.arg # EmptyText /\ ClientSpeak)
          => /\ last'.ret = "true"
             /\ SubmitStep
             /\ currentUtterance'.text = last'.arg
             /\ engineQueue' = <<currentUtterance'>>
             /\ pendingSpeeches' = <<>>]_vars

\* A cancel() that succeeded, dropping two queued requests and an utterance
\* in the engine, whose last event the engine still owes.
C5_Witness ==
  /\ impl = "queue" /\ last.op = "cancel" /\ last.ret = "true"
  /\ last.calls = <<"cancel">> /\ last.pendingBefore >= 2 /\ stale > 0
  /\ Idle /\ pendingSpeeches = <<>>

\* C6: after an engine 'error' with requests still queued, the current
\* request is cleared, the error callback has run, and something that
\* leads to the next dequeue is pending (a dequeue or restart timeout, an
\* utterance in the engine, or an outstanding event): otherwise the queued
\* request is never submitted unless the client calls speak() again.
C6_QueueContinuesAfterError ==
  (impl = "queue" /\ last.op = "onerror" /\ pendingSpeeches # <<>>)
    => /\ currentUtterance = Null
       /\ last.cbs = <<"error">>
       /\ \/ dequeueTimers > 0
          \/ restartTimers # {}
          \/ engineQueue # <<>>
          \/ stale > 0

\* C7: speak("") returns false, submits and queues nothing, and has called
\* the caller's onEnd exactly once.
C7_EmptyText ==
  (last.op = "speak" /\ last.arg = EmptyText)
    => /\ last.ret = "false"
       /\ \A i \in 1..Len(last.calls) : last.calls[i] # "speak"
       /\ Len(pendingSpeeches) = last.pendingBefore
       /\ last.cbs = <<"options.onEnd">>

\* C8: speak() while muted / disabled or without the engine returns false,
\* queues and submits nothing, and has called onEnd.
C8_MutedOrUnavailable ==
  (/\ last.op = "speak"
   /\ \/ ~available
      \/ impl = "queue" /\ muted
      \/ impl = "simple" /\ ~enabled)
    => /\ last.ret = "false"
       /\ \A i \in 1..Len(last.calls) : last.calls[i] # "speak"
       /\ Len(pendingSpeeches) = last.pendingBefore
       /\ last.cbs = <<"options.onEnd">>

\* C9: an 'end' or 'error' of the current utterance, delivered while the
\* manager is speaking (paused or not), leaves the manager Idle.
C9_IdleAfterEndOrError ==
  [][((EngineEnd \/ EngineError) /\ speaking
        /\ Head(engineQueue) = currentUtterance)
       => Idle']_vars

\* C10: pause() succeeds exactly when speaking and not paused, resume()
\* exactly when speaking and paused; a success sets paused and makes the
\* one engine call, a refusal returns false, changes no state and makes no
\* engine call.
C10_PauseResumeFrame ==
  /\ [][(last'.op = "pause" /\ ClientPause) =>
          IF speaking /\ ~paused
            THEN /\ last'.ret = "true" /\ paused' /\ enginePaused'
                 /\ last'.calls = <<"pause">>
            ELSE /\ last'.ret = "false" /\ last'.calls = <<>>
                 /\ UNCHANGED <<mgrVars, engineVars>>]_vars
  /\ [][(last'.op = "resume" /\ ClientResume) =>
          IF speaking /\ paused
            THEN /\ last'.ret = "true" /\ ~paused' /\ ~enginePaused'
                 /\ last'.calls = <<"resume">>
            ELSE /\ last'.ret = "false" /\ last'.calls = <<>>
                 /\ UNCHANGED <<mgrVars, engineVars>>]_vars

\* A resume() that succeeded, so a pause() succeeded before it, and one
\* refused pause() or resume() is covered by every Idle state.
C10_Witness ==
  /\ impl = "queue" /\ last.op = "resume" /\ last.ret = "true"
  /\ speaking /\ ~paused /\ currentUtterance # Null
\* C11: with the Chrome workaround, a watchdog tick that detects a stall
\* (speaking, not paused, more than 10 s since the last event) makes exactly
\* one recovery: resume() if the engine is paused, otherwise one cancel()
\* and one scheduled re-speak of the current text; the interval stays set.
C11_OneRecoveryPerStall ==
  [][(WatchdogFire /\ speaking /\ ~paused /\ timeSinceLastEvent > StallLimit)
       => /\ watchdogSet'
          /\ IF enginePaused
               THEN /\ last'.calls = <<"resume">>
                    /\ timeSinceLastEvent' = 0
               ELSE /\ last'.calls = <<"cancel">>
                    /\ currentUtterance # Null
                    /\ currentUtterance.text \in restartTimers'
                    /\ ~speaking']_vars

\* C12: after ClaudeRobot.destroy() none of the manager's scheduled
\* callbacks (watchdog interval, restart and dequeue timeouts) runs, and no
\* step makes an engine call.
C12_NoWorkAfterDestroy ==
  /\ [][destroyed => ~(WatchdogFire \/ RestartTimer \/ DequeueTimer)]_vars
  /\ [][(destroyed /\ ~Tick) => last'.calls = <<>>]_vars

\* C13: voice loading terminates.  _loadVoicesWithRetry schedules at most
\* 3 retries; once the list is still empty and no retry is pending, 3 were
\* made, state.error is set, state.available and state.initialized are
\* true and a speak() would be accepted.
C13_VoiceLoadingTerminates ==
  (impl = "queue" /\ available)
    => /\ retriesScheduled <= 3
       /\ retryTimer <= 3
       /\ (engineVoices = <<>> /\ retryTimer = 0)
            => /\ retriesScheduled = 3
               /\ stateError
               /\ available /\ initialized
               /\ ~voicesLoaded
               /\ Speak(Cur, 1, 0).ret = "true"

\* The third retry found no voice and gave up.
C13_Witness ==
  /\ impl = "queue" /\ available /\ engineVoices = <<>>
  /\ vlast.op = "retry" /\ vlast.arg.n = 3
  /\ retryTimer = 0 /\ retriesScheduled = 3 /\ stateError

\* The voice that default initialisation is to select from a non-empty
\* list: the configured voice, else an exact locale match, else a match of
\* the primary subtag, else the first voice; a network voice before a local
\* one at both language levels.
C14_Expected(voices, c) ==
  LET n == 1..Len(voices)
      primary == SplitDash0(c.lang)
      configured ==
        IF c.defaultVoice = "" THEN NoVoice
        ELSE Find(voices, {i \in n : voices[i].name = c.defaultVoice
                                    \/ voices[i].voiceURI = c.defaultVoice})
      exactNet == Find(voices, {i \in n : voices[i].lang = c.lang
                                         /\ ~voices[i].localService})
      exact == Find(voices, {i \in n : voices[i].lang = c.lang})
      primaryNet == Find(voices, {i \in n : StartsWith(voices[i].lang, primary)
                                           /\ ~voices[i].localService})
      primaryAny == Find(voices, {i \in n : StartsWith(voices[i].lang, primary)})
  IN IF configured # NoVoice THEN configured
     ELSE IF exactNet # NoVoice THEN exactNet
     ELSE IF exact # NoVoice THEN exact
     ELSE IF primaryNet # NoVoice THEN primaryNet
     ELSE IF primaryAny # NoVoice THEN primaryAny
     ELSE voices[1]

\* C14: whenever default-voice initialisation runs on a non-empty voice
\* list (in the constructor, on 'voiceschanged', in a retry), the voice it
\* selects is the one the preference order names.
C14_DefaultVoice ==
  /\ []((available /\ vlast.op = "init" /\ voiceChanges = 0
          /\ engineVoices # <<>>)
          => selectedVoice = C14_Expected(engineVoices, config))
  /\ [][((VoicesChanged /\ hookSet) \/ (VoiceRetryTimer /\ engineVoices # <<>>))
          => selectedVoice' = C14_Expected(engineVoices', config')]_vars

\* C15: setVoice(v) with an index into the current voice list, or with the
\* name or URI of one of its voices, selects that voice (state.selectedVoice
\* and config.voice) and returns true; with anything else it returns false
\* and leaves the selection and the configuration as they were.
C15_SetVoice ==
  [][(vlast'.op = "setVoice" /\ ClientSetVoice) =>
       LET v == vlast'.arg
           voices == getAvailableVoices
           n == 1..Len(voices)
           named == {i \in n : voices[i].name = v.s \/ voices[i].voiceURI = v.s}
       IN IF v.type = "number" /\ v.n >= 0 /\ v.n < Len(voices)
            THEN /\ vlast'.ret = "true"
                 /\ selectedVoice' = voices[v.n + 1]
                 /\ config' = [config EXCEPT !.voice = voices[v.n + 1]]
          ELSE IF v.type = "string" /\ named # {}
            THEN /\ vlast'.ret = "true"
                 /\ \E i \in named : /\ selectedVoice' = voices[i]
                                     /\ config' = [config EXCEPT !.voice = voices[i]]
          ELSE /\ vlast'.ret = "false"
               /\ selectedVoice' = selectedVoice
               /\ config' = config]_vars

\* setVoice(1) replaced the default voice by the second voice of the list.
C15_Witness ==
  /\ vlast.op = "setVoice" /\ vlast.ret = "true"
  /\ vlast.arg = NumArg(1)
  /\ Len(engineVoices) = 2
  /\ selectedVoice = engineVoices[2] /\ config.voice = engineVoices[2]

\* x clamped to [lo, hi] is y: y lies in the range, and is x itself, lo or
\* hi as x lies inside, below or above it.
C16_Clamped(x, lo, hi, y) ==
  /\ ~y.nan /\ lo <= y.v /\ y.v <= hi
  /\ ~x.nan => y.v = (IF x.v < lo THEN lo ELSE IF x.v > hi THEN hi ELSE x.v)

\* C16: after setRate(x), setPitch(x), setVolume(x) with a number x the
\* stored value is x clamped to [0.1, 10], [0, 2], [0, 1]: no value outside
\* the range is ever stored.
C16_Clamps ==
  /\ [][ClientSetRate => C16_Clamped(vlast'.arg.n, 10, 1000, config'.rate)]_vars
  /\ [][ClientSetPitch => C16_Clamped(vlast'.arg.n, 0, 200, config'.pitch)]_vars
  /\ [][ClientSetVolume => C16_Clamped(vlast'.arg.n, 0, 100, config'.volume)]_vars

\* C17: when a client callback throws in a handler of an engine
\* notification (start, end, pause, resume, boundary, mark, error), the
\* handler catches the exception: it does not reach the engine's dispatch.
C17_CallbackExceptionsCaught ==
  (last.op \in {"onstart", "onend", "onpause", "onresume", "onboundary",
                "onmark", "onerror"} /\ last.thrown # "none")
    => last.thrown = "caught"

\* C18: a manager whose construction found the engine missing or unusable
\* has state.available = false, state.initialized = false and state.error
\* set, and stays so; every speak() on it returns false, and nothing is ever
\* submitted to the engine or queued.
C18_UnavailableIsNonFatal ==
  (impl = "queue" /\ ~available)
    => /\ ~initialized
       /\ stateError
       /\ engineQueue = <<>> /\ nextId = 1 /\ pendingSpeeches = <<>>
       /\ currentUtterance = Null
       /\ last.op = "speak" => (last.ret = "false" /\ last.calls = <<>>)

\* speak() with a text was refused by a manager that is unavailable although
\* window.speechSynthesis exists.
C18_Witness ==
  /\ impl = "queue" /\ ~available /\ hasEngine /\ stateError
  /\ last.op = "speak" /\ last.arg # EmptyText /\ last.ret = "false"

\* A text of the happy keywords only, one or more, with a blank between
\* each two.
HappyOnly(text) ==
  /\ Len(text) % 2 = 1
  /\ \A i \in 1..Len(text) :
       IF i % 2 = 1 THEN text[i] \in emotionKeywords["happy"]
       ELSE text[i] = Space

\* C19: for every text that consists of happy keywords only, separated by
\* whitespace, with no negation and no intensifier, analyze returns the
\* emotion "happy" with a confidence above 0.
C19_HappyKeywordsGiveHappy ==
  (analysis.called /\ analysis.text \notin NonStrings /\ HappyOnly(analysis.text))
    => /\ analysis.result.emotion = "happy"
       /\ analysis.result.confidence[1] > 0

\* A happy keyword comes right after a negation word, a blank between
\* them.
NegatedHappy(text) ==
  \E i \in 1..(Len(text) - 2) :
    /\ text[i] \in negation
    /\ text[i + 1] = Space
    /\ text[i + 2] \in emotionKeywords["happy"]

\* C20: for every text in which a happy keyword comes right after a
\* negation word, analyze gives a negative happy score, and returns
\* "neutral" when no other emotion's score is above 0.2.
C20_NegatedHappyIsNegative ==
  (analysis.called /\ analysis.text \notin NonStrings /\ NegatedHappy(analysis.text))
    => /\ analysis.result.scores["happy"] < 0
       /\ (\A e \in {"sad", "angry", "surprised", "confused"} :
              analysis.result.scores[e] <= Threshold)
            => analysis.result.emotion = "neutral"

\* C21: analyze("This is not good at all, I am very sad") gives a negative
\* happy score, a positive sad score, and the emotion "sad".
C21_NotGoodVerySadIsSad ==
  (analysis.called /\ analysis.text = NotGoodVerySad)
    => /\ analysis.result.scores["happy"] < 0
       /\ analysis.result.scores["sad"] > 0
       /\ analysis.result.emotion = "sad"

\* C22: for the empty string and for what is no string (null, undefined,
\* a number, an object) analyze raises nothing and returns the emotion
\* "neutral" with confidence 0.
C22_NoTextIsNeutral ==
  (analysis.called /\ (analysis.text \in NonStrings \/ analysis.text = <<>>))
    => /\ analysis.result.emotion = "neutral"
       /\ analysis.result.confidence[1] = 0

C22_Witness == analysis.called /\ analysis.text = <<"null">>

\* The words of a text as a reader separates them: at every blank and at
\* every punctuation character, the text in lower case.
RECURSIVE SeparatedWordsFrom(_, _, _)
SeparatedWordsFrom(text, i, word) ==
  LET done == IF word = <<>> THEN <<>> ELSE <<word>>
  IN IF i > Len(text) THEN done
     ELSE IF text[i] \in {Space, Dot, Comma, BraceTail}
       THEN done \o SeparatedWordsFrom(text, i + 1, <<>>)
     ELSE SeparatedWordsFrom(text, i + 1, Append(word, text[i]))

SeparatedWords(text) == SeparatedWordsFrom(toLowerCase(text), 1, <<>>)

\* C23: for every text and every limit, extractKeywords returns at most
\* limit items; none is a stop word, none is shorter than 3 characters,
\* no two are the same, each is a word of the text, and they are in the
\* order of descending frequency.
C23_KeywordsAreWordsOfTheText ==
  (keywords.called /\ keywords.text \notin NonStrings)
    => LET result == keywords.result
           words == SeparatedWords(keywords.text)
       IN /\ Len(result) <= limitOf(keywords.limit)
          /\ \A i \in 1..Len(result) :
               /\ ~isStopWord(result[i])
               /\ length(result[i]) >= 3
               /\ \E j \in 1..Len(words) : words[j] = result[i]
               /\ \A k \in 1..Len(result) : result[k] = result[i] => k = i
               /\ \A k \in (i + 1)..Len(result) :
                    frequency(words, result[k]) <= frequency(words, result[i])

\* C24: analyze splits the text in lower case at whitespace and at the
\* common punctuation characters and drops the empty words: the words it
\* scans are the words of the text as a reader separates them.
C24_SplitsAtBlanksAndPunctuation ==
  (/\ analysis.called
   /\ analysis.text \notin NonStrings
   /\ \A i \in 1..Len(analysis.text) :
        analysis.text[i] \notin {BackslashS, BraceTail})
    => /\ split(toLowerCase(analysis.text), 1, <<>>) = SeparatedWords(analysis.text)
       /\ analysis.result.scores
            = scan(SeparatedWords(analysis.text), 0,
                   [scores |-> NoScores, negationActive |-> FALSE,
                    intensifierActive |-> FALSE])

\* The happy score when a negation holds for the four words scanned after
\* the negation word, wherever that word is: since is the number of words
\* scanned since the negation word, -1 when no negation is active.
RECURSIVE C25_Expected(_, _, _)
C25_Expected(words, i, since) ==
  IF i > Len(words) THEN 0
  ELSE IF includes(negation, words[i]) THEN C25_Expected(words, i + 1, 0)
  ELSE
    LET active == since >= 0
        score == IF ~includes(emotionKeywords["happy"], words[i]) THEN 0
                 ELSE IF active THEN 0 - BaseScore ELSE BaseScore
        next == IF active /\ since + 1 < NegationWindow THEN since + 1 ELSE 0 - 1
    IN score + C25_Expected(words, i + 1, next)

\* C25: once a negation word has set negationActive, the flag is true for
\* the emotion keywords among the next 4 scanned words and false after 4
\* words have been scanned, wherever in the text the negation word is.
C25_NegationLastsFourWords ==
  analysis.called
    => analysis.result.scores["happy"]
         = C25_Expected(split(toLowerCase(analysis.text), 1, <<>>), 1, 0 - 1)

EmotionSet == {Emotions[k] : k \in 1..Len(Emotions)}

\* C26 as stated: the reported emotion is the one whose score is strictly
\* above every other emotion's score, if that score is above 0.2; in all
\* other cases it is "neutral".
C26_StrictMaximumOrNeutral ==
  (analysis.called /\ analysis.text \notin NonStrings /\ analysis.text # <<>>)
    => LET scores == analysis.result.scores
           top == {e \in EmotionSet :
                     /\ scores[e] > Threshold
                     /\ \A f \in EmotionSet \ {e} : scores[f] < scores[e]}
       IN IF top # {} THEN analysis.result.emotion \in top
          ELSE analysis.result.emotion = "neutral"

\* C26, amended: the reported emotion has the highest score, and is the
\* first of the emotions with that score in the order happy, sad, angry,
\* surprised, confused, if that score is above 0.2; it is "neutral" when
\* no score is above 0.2.
C26_FirstMaximumOrNeutral ==
  (analysis.called /\ analysis.text \notin NonStrings /\ analysis.text # <<>>)
    => LET scores == analysis.result.scores
           first == {k \in 1..Len(Emotions) :
                       /\ scores[Emotions[k]] > Threshold
                       /\ \A j \in 1..Len(Emotions) :
                            /\ scores[Emotions[j]] <= scores[Emotions[k]]
                            /\ j < k => scores[Emotions[j]] < scores[Emotions[k]]}
       IN IF first # {}
            THEN \E k \in first : analysis.result.emotion = Emotions[k]
          ELSE analysis.result.emotion = "neutral"

\* "upset" is a keyword of sad and of angry: the two scores are equal.
C26_Witness ==
  /\ analysis.called
  /\ analysis.text = <<"upset">>
  /\ analysis.result.scores["sad"] = analysis.result.scores["angry"]
  /\ analysis.result.scores["sad"] > Threshold
  /\ analysis.result.emotion = "sad"

\* C27: after cancel() has returned, and until the client calls speak()
\* again, no step of the manager calls the engine's speak: no timer that
\* was scheduled before the cancel brings cancelled speech back.
C27_CancelledSpeechStaysCancelled ==
  [][(cancelled /\ last'.op # "speak")
       => \A i \in 1..Len(last'.calls) : last'.calls[i] # "speak"]_vars

\* C28: the watchdog never cancels an utterance that the engine is
\* speaking, i.e. one that has started, is not finished and is not paused.
C28_WatchdogSparesPlayingUtterance ==
  [][(/\ last'.op = "watchdog"
      /\ WatchdogFire
      /\ engineQueue # <<>> /\ engineStarted /\ ~enginePaused
      /\ currentUtterance = Head(engineQueue))
       => \A i \in 1..Len(last'.calls) : last'.calls[i] # "cancel"]_vars

\* C29: the 'end' or 'error' event of an utterance that was cancelled
\* changes nothing of the utterance that is current when it arrives:
\* state.speaking, state.currentUtterance and the pending queue stay.
C29_StaleEventsChangeNothing ==
  [][(/\ stale' = stale - 1
      /\ last'.op \in {"onend", "onerror"}
      /\ impl = "queue"
      /\ currentUtterance # Null)
       => UNCHANGED <<speaking, currentUtterance, pendingSpeeches>>]_vars

\* C30: once a setVoice of the client has returned true, neither the
\* engine's 'voiceschanged' notification nor a retry of the voice loading
\* replaces state.selectedVoice.
C30_ChosenVoiceStays ==
  [][(voiceChosen /\ vlast'.op \in {"voiceschanged", "retry"})
       => selectedVoice' = selectedVoice]_vars

=============================================================================
